---- MODULE Spec2Model ----
(***************************************************************************)
(* Model of drivers/i2c/muxes/i2c-mux-pca954x.c: the PCA954x I2C mux /     *)
(* switch driver.  One device instance: probe, select / deselect of a      *)
(* channel, the threaded interrupt handler, resume and remove.            *)
(***************************************************************************)
EXTENDS Integers, Sequences, FiniteSets, TLC

(***************************************************************************)
(* Bounds of the model.                                                    *)
(***************************************************************************)
\* largest channel number a caller outside the mux core's contract passes
MaxChan == 9
\* largest pdata->num_modes the platform data carries
MaxModes == 2

(***************************************************************************)
(* Program constants.                                                      *)
(***************************************************************************)
PCA954X_MAX_NCHANS == 8
PCA954X_IRQ_OFFSET == 4

ENODEV == 19
EINVAL == 22
ENOMEM == 12
EOPNOTSUPP == 95

I2C_DEVICE_ID_NONE == 65535
I2C_DEVICE_ID_NXP_SEMICONDUCTORS == 0

\* enum pca_type
pca_9540 == 0
pca_9542 == 1
pca_9543 == 2
pca_9544 == 3
pca_9545 == 4
pca_9546 == 5
pca_9547 == 6
pca_9548 == 7
pca_9846 == 8
pca_9847 == 9
pca_9848 == 10
pca_9849 == 11

\* enum muxtype
pca954x_ismux == 0
pca954x_isswi == 1

ChipDesc(n, e, h, m, mid, pid) ==
    [nchans |-> n, enable |-> e, has_irq |-> h, muxtype |-> m,
     manufacturer_id |-> mid, part_id |-> pid]

\* static const struct chip_desc chips[]
chips ==
    (pca_9540 :> ChipDesc(2, 4, 0, pca954x_ismux, I2C_DEVICE_ID_NONE, 0)) @@
    (pca_9542 :> ChipDesc(2, 4, 1, pca954x_ismux, I2C_DEVICE_ID_NONE, 0)) @@
    (pca_9543 :> ChipDesc(2, 0, 1, pca954x_isswi, I2C_DEVICE_ID_NONE, 0)) @@
    (pca_9544 :> ChipDesc(4, 4, 1, pca954x_ismux, I2C_DEVICE_ID_NONE, 0)) @@
    (pca_9545 :> ChipDesc(4, 0, 1, pca954x_isswi, I2C_DEVICE_ID_NONE, 0)) @@
    (pca_9546 :> ChipDesc(4, 0, 0, pca954x_isswi, I2C_DEVICE_ID_NONE, 0)) @@
    (pca_9547 :> ChipDesc(8, 8, 0, pca954x_ismux, I2C_DEVICE_ID_NONE, 0)) @@
    (pca_9548 :> ChipDesc(8, 0, 0, pca954x_isswi, I2C_DEVICE_ID_NONE, 0)) @@
    (pca_9846 :> ChipDesc(4, 0, 0, pca954x_isswi,
                          I2C_DEVICE_ID_NXP_SEMICONDUCTORS, 267)) @@
    (pca_9847 :> ChipDesc(8, 8, 0, pca954x_ismux,
                          I2C_DEVICE_ID_NXP_SEMICONDUCTORS, 264)) @@
    (pca_9848 :> ChipDesc(8, 0, 0, pca954x_isswi,
                          I2C_DEVICE_ID_NXP_SEMICONDUCTORS, 266)) @@
    (pca_9849 :> ChipDesc(4, 4, 0, pca954x_ismux,
                          I2C_DEVICE_ID_NXP_SEMICONDUCTORS, 265))

ChipTypes == DOMAIN chips

(***************************************************************************)
(* C integer operations.                                                   *)
(***************************************************************************)
RECURSIVE BitOr(_, _)
\* a | b on non-negative integers
BitOr(a, b) ==
    IF a = 0 THEN b
    ELSE IF b = 0 THEN a
    ELSE (IF a % 2 = 1 \/ b % 2 = 1 THEN 1 ELSE 0)
         + 2 * BitOr(a \div 2, b \div 2)

RECURSIVE BitAnd(_, _)
\* a & b on non-negative integers
BitAnd(a, b) ==
    IF a = 0 \/ b = 0 THEN 0
    ELSE (IF a % 2 = 1 /\ b % 2 = 1 THEN 1 ELSE 0)
         + 2 * BitAnd(a \div 2, b \div 2)

\* conversion of an int to u8
U8(x) == x % 256

\* BIT(n), 1 << n
BIT(n) == 2 ^ n

\* the low 16 bits of the two's complement representation of an int
Low16(x) == x % 65536

(***************************************************************************)
(* State.                                                                  *)
(***************************************************************************)
VARIABLES
    phase,      \* "unbound", "attached", "failed", "cleanup", "removed"
    chip,       \* data->chip, an index into chips
    last_chan,  \* data->last_chan
    deselect,   \* data->deselect
    irq,        \* data->irq is not NULL
    domain,     \* the irq domain data->irq points to exists
    mapped,     \* hwirq numbers of the domain that have a mapping
    channels,   \* chan_id of the adapters of the mux core, in creation order
    bound,      \* pca954x_irq_handler is requested on client->irq
    hwreg,      \* the control register of the chip
    last,       \* the most recent probe / select / deselect / resume /
                \* remove: its arguments, what it did and what it returned
    lastWrite,  \* the most recent write attempt on the control register
    h,          \* the threaded interrupt handler: position, locals, result
    rm_c,       \* loop counter c of pca954x_cleanup in pca954x_remove
    bus,        \* the parent adapter's bus lock and the position of the mux
                \* core's transfer through a channel
    lk          \* data->lock: initialised or not, how the irq domain and
                \* its mappings were changed, held across a blocking call

vars == <<phase, chip, last_chan, deselect, irq, domain, mapped, channels,
          bound, hwreg, last, lastWrite, h, rm_c, bus, lk>>

(***************************************************************************)
(* The bus.                                                                *)
(***************************************************************************)
\* results of __i2c_smbus_xfer / i2c_smbus_write_byte: 0 or a negative errno
BusErrs == {-5, -6}
BusRets == {0} \cup BusErrs

\* register values the chip may hold when the driver binds
PriorRegs == {0, 1, 5}

\* The register after a write attempt of val that returned ret: a failed
\* transfer may or may not have reached the chip.
RegAfterWrite(old, val, ret, landed) ==
    IF ret = 0 \/ landed THEN val ELSE old

WriteRec(val, ret) == [byte |-> val, ret |-> ret]
NoWrite == [byte |-> -1, ret |-> 0]

NoCall == [op |-> "none"]

\* a failed transfer reached the chip or not; a successful one did
Landings(ret) == IF ret < 0 THEN BOOLEAN ELSE {TRUE}

CallRec(op, chan, nwrites, byte, ret) ==
    [op |-> op, chan |-> chan, nwrites |-> nwrites, byte |-> byte, ret |-> ret]

Range(s) == {s[k] : k \in DOMAIN s}

(***************************************************************************)
(* pca954x_select_chan                                                     *)
(***************************************************************************)
\* variant: the enable bits of a mux are left out
SelectRegvalNoEnable(desc, chan) ==
    IF desc.muxtype = pca954x_ismux THEN U8(chan) ELSE U8(BIT(chan))

\* variant: regval is not narrowed to a u8
SelectRegvalWide(desc, chan) ==
    IF desc.muxtype = pca954x_ismux
    THEN BitOr(chan, desc.enable)
    ELSE BIT(chan)

\* variant: a switch keeps the bits it wrote before
SelectRegvalAccumulates(desc, chan) ==
    IF desc.muxtype = pca954x_ismux
    THEN U8(BitOr(chan, desc.enable))
    ELSE U8(BitOr(last_chan, BIT(chan)))

\* variant: a mux writes the enable bit alone
SelectRegvalEnableOnly(desc, chan) ==
    IF desc.muxtype = pca954x_ismux
    THEN U8(desc.enable)
    ELSE U8(BIT(chan))

\* regval: the mux encoding or the switch encoding, stored in a u8
SelectRegval(desc, chan) ==
    IF desc.muxtype = pca954x_ismux
    THEN U8(BitOr(chan, desc.enable))
    ELSE U8(BIT(chan))

\* variant: the write is left out when last_chan already holds regval
SelectWritesOnChange(cur, regval) == cur # regval

\* the write is issued on every call, whatever last_chan holds
SelectWrites(cur, regval) == TRUE

\* variant: last_chan keeps regval when the write failed
SelectLastChanStale(ret, regval) == regval

\* data->last_chan = ret < 0 ? 0 : regval
SelectLastChan(ret, regval) == IF ret < 0 THEN 0 ELSE regval

\* cached: regval is what data->last_chan held when the call began
SelectRec(chan, nwrites, regval, ret) ==
    [op |-> "select", chan |-> chan, nwrites |-> nwrites, byte |-> regval,
     ret |-> ret, cached |-> (regval = last_chan)]

SelectChan(chan, ret, landed) ==
    LET regval == SelectRegval(chips[chip], chan) IN
    IF SelectWrites(last_chan, regval)
    THEN /\ last_chan' = SelectLastChan(ret, regval)
         /\ hwreg' = RegAfterWrite(hwreg, regval, ret, landed)
         /\ lastWrite' = WriteRec(regval, ret)
         /\ last' = SelectRec(chan, 1, regval, ret)
    ELSE /\ UNCHANGED <<last_chan, hwreg, lastWrite>>
         /\ last' = SelectRec(chan, 0, regval, 0)

\* the mux core calls select with the chan_id of one of its adapters
Select ==
    /\ \E chan \in Range(channels), ret \in BusRets : \E landed \in Landings(ret) :
          SelectChan(chan, ret, landed)
    /\ UNCHANGED <<phase, chip, deselect, irq, domain, mapped, channels,
                   bound, h, rm_c>>
    /\ UNCHANGED <<bus, lk>>

(***************************************************************************)
(* pca954x_deselect_mux                                                    *)
(***************************************************************************)
\* variant: every deselect writes
DeselectSkipsNever(mask, chan) == FALSE

\* !(data->deselect & (1 << chan))
DeselectSkips(mask, chan) == BitAnd(mask, BIT(chan)) = 0

\* variant: last_chan is not cleared
DeselectLastChanKept(cur) == cur

\* data->last_chan = 0
DeselectLastChan(cur) == 0

\* variant: the result of the write is dropped
DeselectRetIgnored(ret) == 0

\* return pca954x_reg_write(...)
DeselectRet(ret) == ret

DeselectMux(chan, ret, landed) ==
    IF DeselectSkips(deselect, chan)
    THEN /\ UNCHANGED <<last_chan, hwreg, lastWrite>>
         /\ last' = CallRec("deselect", chan, 0, 0, 0)
    ELSE /\ last_chan' = DeselectLastChan(last_chan)
         /\ hwreg' = RegAfterWrite(hwreg, 0, ret, landed)
         /\ lastWrite' = WriteRec(0, ret)
         /\ last' = CallRec("deselect", chan, 1, 0, DeselectRet(ret))

Deselect ==
    /\ \E chan \in Range(channels), ret \in BusRets : \E landed \in Landings(ret) :
          DeselectMux(chan, ret, landed)
    /\ UNCHANGED <<phase, chip, deselect, irq, domain, mapped, channels,
                   bound, h, rm_c>>
    /\ UNCHANGED <<bus, lk>>

(***************************************************************************)
(* pca954x_resume                                                          *)
(***************************************************************************)
\* variant: the cached register value survives the resume
ResumeLastChanKept(cur) == cur

\* data->last_chan = 0
ResumeLastChan(cur) == 0

Resume ==
    /\ phase = "attached"
    /\ \E ret \in BusRets : \E landed \in Landings(ret) :
          /\ last_chan' = ResumeLastChan(last_chan)
          /\ hwreg' = RegAfterWrite(hwreg, 0, ret, landed)
          /\ lastWrite' = WriteRec(0, ret)
          /\ last' = CallRec("resume", 0, 1, 0, ret)
    /\ UNCHANGED <<phase, chip, deselect, irq, domain, mapped, channels,
                   bound, h, rm_c>>
    /\ UNCHANGED <<bus, lk>>

(***************************************************************************)
(* The two locks: the parent adapter's bus lock, which the i2c core and    *)
(* the mux core take, and data->lock of the device instance.               *)
(***************************************************************************)
\* nobody holds the adapter, no transfer through a channel is under way
BusIdle == [owner |-> "none", pc |-> "idle", chan |-> 0]

\* pca954x_reg_write calls __i2c_smbus_xfer, which does not take the lock of
\* the adapter
RegWriteLocks == FALSE

\* variant: the status byte is read with the unlocked transfer
IrqReadLocksNever == FALSE

\* the handler calls i2c_smbus_read_byte, which takes the lock of the adapter
IrqReadLocks == TRUE

\* data->lock before raw_spin_lock_init; muts: how the changes of the irq
\* domain and of its mappings ran, with the lock taken or not; blk: the lock
\* was held across the handler's read or a nested dispatch
NoLock == [state |-> "uninit", muts |-> {}, blk |-> FALSE]

LockMode(takes) == IF takes THEN "locked" ELSE "unlocked"

\* pca954x_irq_setup initialises data->lock and does not take it
SetupLocks == FALSE

\* pca954x_cleanup does not take data->lock
CleanupLocks == FALSE

\* pca954x_irq_handler does not take data->lock
HandlerLocks == FALSE

(***************************************************************************)
(* pca954x_irq_set_type                                                    *)
(***************************************************************************)
IRQ_TYPE_LEVEL_LOW == 8
IRQ_TYPE_SENSE_MASK == 15

\* the trigger types of linux/irq.h a consumer asks for: none, the edges,
\* the levels, and level low together with IRQ_TYPE_PROBE
IrqTypes == {0, 1, 2, 3, 4, 8, 24}

\* variant: the type is compared without the sense mask
IrqSetTypeRetNoMask(type) ==
    IF type # IRQ_TYPE_LEVEL_LOW THEN -EINVAL ELSE 0

\* if ((type & IRQ_TYPE_SENSE_MASK) != IRQ_TYPE_LEVEL_LOW) return -EINVAL
IrqSetTypeRet(type) ==
    IF BitAnd(type, IRQ_TYPE_SENSE_MASK) # IRQ_TYPE_LEVEL_LOW
    THEN -EINVAL ELSE 0

\* a consumer of one of the mapped lines sets its trigger type
IrqSetType ==
    /\ phase = "attached"
    /\ mapped # {}
    /\ \E type \in IrqTypes :
          last' = [op |-> "set_type", type |-> type, ret |-> IrqSetTypeRet(type)]
    /\ UNCHANGED <<phase, chip, last_chan, deselect, irq, domain, mapped,
                   channels, bound, hwreg, lastWrite, h, rm_c, bus, lk>>

(***************************************************************************)
(* pca954x_irq_setup                                                       *)
(***************************************************************************)
\* variant: the interrupt line of the client is not looked at
IrqSetupSkipsNoLine(desc, line) == desc.has_irq = 0

\* !data->chip->has_irq || client->irq <= 0
IrqSetupSkips(desc, line) == desc.has_irq = 0 \/ ~line

\* domain_ok: irq_domain_add_linear returned a domain; map_fail: the hwirq
\* whose irq_create_mapping returns 0, or desc.nchans when none does.
\* created: the mappings made, also those a later cleanup disposes of.
pca954x_irq_setup(desc, line, domain_ok, map_fail) ==
    IF IrqSetupSkips(desc, line)
    THEN [ret |-> 0, irq |-> FALSE, mapped |-> {}, lockinit |-> FALSE]
    ELSE IF ~domain_ok
    THEN [ret |-> -ENODEV, irq |-> FALSE, mapped |-> {}, lockinit |-> TRUE]
    ELSE IF map_fail < desc.nchans
    THEN [ret |-> -EINVAL, irq |-> TRUE, mapped |-> 0 .. (map_fail - 1),
          lockinit |-> TRUE]
    ELSE [ret |-> 0, irq |-> TRUE, mapped |-> 0 .. (desc.nchans - 1),
          lockinit |-> TRUE]

\* data->lock after pca954x_irq_setup, and after the pca954x_cleanup of a
\* failed probe when cleanup is set
LockAfterSetup(setup, cleanup) ==
    [state |-> IF setup.lockinit THEN "free" ELSE "uninit",
     muts |-> IF setup.irq
              THEN {LockMode(SetupLocks)} \cup
                   (IF cleanup THEN {LockMode(CleanupLocks)} ELSE {})
              ELSE {},
     blk |-> FALSE]

(***************************************************************************)
(* pca954x_cleanup, as a whole                                             *)
(***************************************************************************)
\* variant: the mappings are left alone
CleanupMappingsKept(irqptr, m, nchans) == m

\* if (data->irq): every hwirq c < nchans loses its mapping
CleanupMappings(irqptr, m, nchans) ==
    IF irqptr THEN m \ (0 .. (nchans - 1)) ELSE m

\* if (data->irq) irq_domain_remove(data->irq)
CleanupDomain(irqptr, dom) == IF irqptr THEN FALSE ELSE dom

\* i2c_mux_del_adapters(muxc)
CleanupAdapters(chs) == <<>>

(***************************************************************************)
(* pca954x_probe                                                           *)
(***************************************************************************)
\* platform data: absent, or modes[0 .. num_modes-1].deselect_on_exit
NoPdata == [present |-> FALSE, modes |-> <<>>]
PData ==
    {NoPdata} \cup
    {[present |-> TRUE, modes |-> m] :
        m \in UNION {[1 .. n -> BOOLEAN] : n \in 0 .. MaxModes}}

\* platform data with more modes than the chip has channels: one entry past
\* MaxModes, for the chips that have no more channels than MaxModes
LongPData(desc) ==
    IF desc.nchans <= MaxModes
    THEN {[present |-> TRUE, modes |-> Append(m, FALSE)] :
             m \in [1 .. MaxModes -> BOOLEAN]}
    ELSE {}

\* devm_gpiod_get_optional: no reset line, a reset line, or an error pointer
GpioResults == {"none", "line", "err"}
GpioErr == -16
AddErr == -12
ReqErr == -16

\* i2c_get_device_id: 0, -EOPNOTSUPP or another negative errno
IdRets == {0, -EOPNOTSUPP} \cup BusErrs

\* identities the part may answer with: the descriptor's, or one that differs
\* in the part id, or one that differs in the manufacturer id
IdReads(desc) ==
    {[manufacturer_id |-> desc.manufacturer_id + dm, part_id |-> desc.part_id + dp] :
        dm \in {0, 1}, dp \in {0, 1}} \
    {[manufacturer_id |-> desc.manufacturer_id + 1, part_id |-> desc.part_id + 1]}

\* data->chip->id.manufacturer_id != I2C_DEVICE_ID_NONE
HasIdentity(desc) == desc.manufacturer_id # I2C_DEVICE_ID_NONE

\* variant: -EOPNOTSUPP is an error like the others
IdReadFailsAlways(ret) == ret # 0

\* ret && ret != -EOPNOTSUPP
IdReadFails(ret) == ret # 0 /\ ret # -EOPNOTSUPP

\* variant: the part id is not compared
IdMismatchMfrOnly(ret, id, desc) ==
    ret = 0 /\ id.manufacturer_id # desc.manufacturer_id

\* !ret && (id.manufacturer_id != ... || id.part_id != ...)
IdMismatch(ret, id, desc) ==
    /\ ret = 0
    /\ \/ id.manufacturer_id # desc.manufacturer_id
       \/ id.part_id # desc.part_id

\* idle_disconnect_pd of channel num
IdlePd(pd, num) ==
    pd.present /\ num < Len(pd.modes) /\ pd.modes[num + 1]

\* variant: the unconfigured channels are not discarded
AdapterCountAll(desc, pd) == desc.nchans

\* the loop leaves at the first num with pdata && num >= pdata->num_modes
AdapterCount(desc, pd) ==
    IF pd.present /\ Len(pd.modes) < desc.nchans
    THEN Len(pd.modes) ELSE desc.nchans

\* variant: the flags of the platform data are not looked at
DeselectBitsDtOnly(pd, idle_dt, n) == IF idle_dt THEN BIT(n) - 1 ELSE 0

RECURSIVE DeselectBits(_, _, _)
\* data->deselect |= (idle_disconnect_pd || idle_disconnect_dt) << num,
\* for num = 0 .. n-1
DeselectBits(pd, idle_dt, n) ==
    IF n = 0 THEN 0
    ELSE U8(BitOr(DeselectBits(pd, idle_dt, n - 1),
                  (IF IdlePd(pd, n - 1) \/ idle_dt THEN 1 ELSE 0) * BIT(n - 1)))

\* what the platform gives probe: platform data, the DT property
\* i2c-mux-idle-disconnect, client->irq > 0
Conf(pd, idle_dt, line) == [pdata |-> pd, idle_dt |-> idle_dt, line |-> line]

\* the record of a probe: the chip type and configuration it was given, the
\* number of identity reads (with the result and the identity of the last
\* one), register writes (with the result of the last one), irq domains, irq mappings, adapters and interrupt
\* requests it made, and what it returned
NoId == [manufacturer_id |-> I2C_DEVICE_ID_NONE, part_id |-> 0]
ProbeRec(id, conf) ==
    [op |-> "probe", id |-> id, conf |-> conf, ret |-> 0, idreads |-> 0,
     idret |-> 0, read |-> NoId, wret |-> 0,
     writes |-> 0, domains |-> 0, maps |-> 0, adapters |-> 0, requests |-> 0]

\* return before anything but the mux core was allocated: devm frees it
ProbeReturnsEarly(id, conf, ret, reg, lw, log) ==
    /\ phase' = "failed"
    /\ chip' = id
    /\ hwreg' = reg
    /\ lastWrite' = lw
    /\ last' = [log EXCEPT !.ret = ret]
    /\ UNCHANGED <<last_chan, deselect, irq, domain, mapped, channels, bound,
                   h, rm_c, lk>>

\* goto fail_cleanup: pca954x_cleanup disposes of every mapping, removes the
\* domain when data->irq is set and deletes the adapters
ProbeFailsCleanup(id, conf, ret, setup, mask, log) ==
    /\ phase' = "failed"
    /\ chip' = id
    /\ hwreg' = 0
    /\ lastWrite' = WriteRec(0, 0)
    /\ last_chan' = 0
    /\ deselect' = mask
    /\ irq' = setup.irq
    /\ domain' = CleanupDomain(setup.irq, setup.irq)
    /\ mapped' = CleanupMappings(setup.irq, setup.mapped, chips[id].nchans)
    /\ channels' = CleanupAdapters([k \in 1 .. log.adapters |-> k - 1])
    /\ bound' = FALSE
    /\ lk' = LockAfterSetup(setup, TRUE)
    /\ last' = [log EXCEPT !.ret = ret]
    /\ UNCHANGED <<h, rm_c>>

ProbeSucceeds(id, conf, setup, mask, n, log) ==
    /\ phase' = "attached"
    /\ chip' = id
    /\ hwreg' = 0
    /\ lastWrite' = WriteRec(0, 0)
    /\ last_chan' = 0
    /\ deselect' = mask
    /\ irq' = setup.irq
    /\ domain' = setup.irq
    /\ mapped' = setup.mapped
    /\ channels' = [k \in 1 .. n |-> k - 1]
    /\ bound' = setup.irq
    /\ lk' = LockAfterSetup(setup, FALSE)
    /\ last' = [log EXCEPT !.ret = 0]
    /\ UNCHANGED <<h, rm_c>>

\* from pca954x_irq_setup on: the write of 0 succeeded
ProbeBuilds(id, conf, log) ==
    LET desc == chips[id]
        n == AdapterCount(desc, conf.pdata)
    IN
    \E domain_ok \in BOOLEAN, map_fail \in 0 .. desc.nchans :
      LET setup == pca954x_irq_setup(desc, conf.line, domain_ok, map_fail)
          log1 == [log EXCEPT !.domains = IF setup.irq THEN 1 ELSE 0,
                              !.maps = Cardinality(setup.mapped)]
      IN
      IF setup.ret # 0
      THEN ProbeFailsCleanup(id, conf, setup.ret, setup, 0, log1)
      ELSE
        \* add_fail: the num whose i2c_mux_add_adapter fails, or n
        \E add_fail \in 0 .. n :
          IF add_fail < n
          THEN ProbeFailsCleanup(id, conf, AddErr, setup,
                   DeselectBits(conf.pdata, conf.idle_dt, add_fail + 1),
                   [log1 EXCEPT !.adapters = add_fail])
          ELSE
            LET mask == DeselectBits(conf.pdata, conf.idle_dt, n)
                log2 == [log1 EXCEPT !.adapters = n]
            IN
            IF ~setup.irq
            THEN ProbeSucceeds(id, conf, setup, mask, n, log2)
            ELSE
              \E req_ok \in BOOLEAN :
                IF req_ok
                THEN ProbeSucceeds(id, conf, setup, mask, n,
                                   [log2 EXCEPT !.requests = 1])
                ELSE ProbeFailsCleanup(id, conf, ReqErr, setup, mask, log2)

\* variant: the result of the write is not looked at
ProbeWriteFailedNever(w) == FALSE

\* i2c_smbus_write_byte(client, 0) < 0
ProbeWriteFailed(w) == w < 0

\* the write of 0 that probes for the chip
ProbeWrites(id, conf, reg, log) ==
    \E w \in BusRets : \E landed \in Landings(w) :
      LET log1 == [log EXCEPT !.writes = 1, !.wret = w] IN
      IF ProbeWriteFailed(w)
      THEN ProbeReturnsEarly(id, conf, -ENODEV,
                             RegAfterWrite(reg, 0, w, landed),
                             WriteRec(0, w), log1)
      ELSE ProbeBuilds(id, conf, log1)

\* the identity check
ProbeIdentifies(id, conf, reg, log) ==
    LET desc == chips[id] IN
    IF ~HasIdentity(desc)
    THEN ProbeWrites(id, conf, reg, log)
    ELSE
      \E ret \in IdRets, read \in IdReads(desc) :
        LET log1 == [log EXCEPT !.idreads = 1, !.idret = ret,
                                !.read = IF ret = 0 THEN read ELSE NoId]
        IN
        IF IdReadFails(ret)
        THEN ProbeReturnsEarly(id, conf, ret, reg, lastWrite, log1)
        ELSE IF IdMismatch(ret, read, desc)
        THEN ProbeReturnsEarly(id, conf, -ENODEV, reg, lastWrite, log1)
        ELSE ProbeWrites(id, conf, reg, log1)

Probe ==
    /\ phase = "unbound"
    /\ UNCHANGED bus
    /\ \E id \in ChipTypes, idle_dt \in BOOLEAN, line \in BOOLEAN :
      \E pd \in PData \cup LongPData(chips[id]) :
        LET conf == Conf(pd, idle_dt, line)
            log == ProbeRec(id, conf)
        IN
        \E func_ok \in BOOLEAN, alloc_ok \in BOOLEAN, gpio \in GpioResults :
          IF ~func_ok
          THEN ProbeReturnsEarly(id, conf, -ENODEV, hwreg, lastWrite, log)
          ELSE IF ~alloc_ok
          THEN ProbeReturnsEarly(id, conf, -ENOMEM, hwreg, lastWrite, log)
          ELSE IF gpio = "err"
          THEN ProbeReturnsEarly(id, conf, GpioErr, hwreg, lastWrite, log)
          ELSE ProbeIdentifies(id, conf,
                               IF gpio = "line" THEN 0 ELSE hwreg, log)

(***************************************************************************)
(* pca954x_irq_handler, the thread function of the shared interrupt        *)
(***************************************************************************)
\* status bytes the chip answers i2c_smbus_read_byte with
StatusBytes == {15, 32, 208}
StatusReads == StatusBytes \cup BusErrs

\* at: where the mux core's transfer stood when the status byte was read
HandlerIdle == [pc |-> "idle", ret |-> 0, i |-> 0, disp |-> <<>>,
                result |-> "none", stale |-> FALSE, at |-> "idle"]

\* variant: a failed read is taken for a status byte
IrqReadFailedNever(ret) == FALSE

\* if (ret < 0) return IRQ_NONE
IrqReadFailed(ret) == ret < 0

\* variant: the status bits are taken from bit 0 on
IrqBitSetNoOffset(ret, i) == BitAnd(Low16(ret), BIT(i)) # 0

\* ret & BIT(PCA954X_IRQ_OFFSET + i)
IrqBitSet(ret, i) == BitAnd(Low16(ret), BIT(PCA954X_IRQ_OFFSET + i)) # 0

\* return handled ? IRQ_HANDLED : IRQ_NONE
IrqResult(handled) == IF handled # 0 THEN "IRQ_HANDLED" ELSE "IRQ_NONE"

\* the interrupt fires: the thread reads the status byte
IrqRead ==
    /\ bound
    /\ h.pc # "loop"
    /\ IrqReadLocks => bus.owner = "none"
    /\ \E ret \in StatusReads :
          h' = IF IrqReadFailed(ret)
               THEN [HandlerIdle EXCEPT !.pc = "done", !.ret = ret,
                                        !.result = "IRQ_NONE", !.at = bus.pc]
               ELSE [HandlerIdle EXCEPT !.pc = "loop", !.ret = ret,
                                        !.at = bus.pc]
    /\ lk' = [lk EXCEPT !.blk = @ \/ HandlerLocks]
    /\ UNCHANGED <<phase, chip, last_chan, deselect, irq, domain, mapped,
                   channels, bound, hwreg, last, lastWrite, rm_c, bus>>

\* one turn of the loop over the channels: irq_linear_revmap gives the line
\* of hwirq i, 0 when it has no mapping; a domain already removed is freed
\* memory, where the lookup gives either.
IrqLoop ==
    /\ h.pc = "loop"
    /\ h.i < chips[chip].nchans
    /\ IF IrqBitSet(h.ret, h.i)
       THEN \E virq \in {0, h.i + 1} :
              /\ domain => (virq # 0 <=> h.i \in mapped)
              /\ h' = [h EXCEPT !.i = @ + 1,
                                !.disp = Append(@, [chan |-> h.i, virq |-> virq]),
                                !.stale = @ \/ ~domain \/ h.i \notin mapped]
       ELSE h' = [h EXCEPT !.i = @ + 1]
    /\ lk' = [lk EXCEPT !.blk = @ \/ (IrqBitSet(h.ret, h.i) /\ HandlerLocks)]
    /\ UNCHANGED <<phase, chip, last_chan, deselect, irq, domain, mapped,
                   channels, bound, hwreg, last, lastWrite, rm_c, bus>>

IrqReturn ==
    /\ h.pc = "loop"
    /\ h.i >= chips[chip].nchans
    /\ h' = [h EXCEPT !.pc = "done", !.result = IrqResult(Len(h.disp))]
    /\ UNCHANGED <<phase, chip, last_chan, deselect, irq, domain, mapped,
                   channels, bound, hwreg, last, lastWrite, rm_c>>
    /\ UNCHANGED <<bus, lk>>

(***************************************************************************)
(* pca954x_remove: pca954x_cleanup, then the release of the devm resources *)
(***************************************************************************)
Remove ==
    /\ phase = "attached"
    /\ phase' = "cleanup"
    /\ rm_c' = 0
    /\ last' = [op |-> "remove"]
    /\ UNCHANGED <<chip, last_chan, deselect, irq, domain, mapped, channels,
                   bound, hwreg, lastWrite, h>>
    /\ UNCHANGED <<bus, lk>>

\* irq = irq_find_mapping(data->irq, c); irq_dispose_mapping(irq)
CleanupDispose ==
    /\ phase = "cleanup"
    /\ irq /\ domain
    /\ rm_c < chips[chip].nchans
    /\ mapped' = mapped \ {rm_c}
    /\ rm_c' = rm_c + 1
    /\ lk' = [lk EXCEPT !.muts = @ \cup {LockMode(CleanupLocks)}]
    /\ UNCHANGED <<phase, chip, last_chan, deselect, irq, domain, channels,
                   bound, hwreg, last, lastWrite, h, bus>>

\* irq_domain_remove(data->irq); data->irq keeps its value
CleanupDomainRemove ==
    /\ phase = "cleanup"
    /\ irq /\ domain
    /\ rm_c >= chips[chip].nchans
    /\ domain' = FALSE
    /\ lk' = [lk EXCEPT !.muts = @ \cup {LockMode(CleanupLocks)}]
    /\ UNCHANGED <<phase, chip, last_chan, deselect, irq, mapped, channels,
                   bound, hwreg, last, lastWrite, h, rm_c, bus>>

\* i2c_mux_del_adapters(muxc); pca954x_remove returns
CleanupDelAdapters ==
    /\ phase = "cleanup"
    /\ ~(irq /\ domain)
    /\ channels' = <<>>
    /\ phase' = "devm"
    /\ UNCHANGED <<chip, last_chan, deselect, irq, domain, mapped, bound,
                   hwreg, last, lastWrite, h, rm_c>>
    /\ UNCHANGED <<bus, lk>>

\* after remove returned the driver core releases the devm resources: the
\* interrupt requested with devm_request_threaded_irq is freed, which waits
\* for a running thread function
DevmRelease ==
    /\ phase = "devm"
    /\ h.pc # "loop"
    /\ bound' = FALSE
    /\ phase' = "removed"
    /\ UNCHANGED <<chip, last_chan, deselect, irq, domain, mapped, channels,
                   hwreg, last, lastWrite, h, rm_c>>
    /\ UNCHANGED <<bus, lk>>

(***************************************************************************)
(* A transfer through one of the channels: the mux core locks the parent   *)
(* adapter, calls select, runs the transfer on the parent, calls deselect  *)
(* and unlocks.                                                            *)
(***************************************************************************)
MuxLock ==
    /\ phase = "attached"
    /\ bus.owner = "none"
    /\ bus.pc = "idle"
    /\ \E chan \in Range(channels) :
          bus' = [owner |-> "mux", pc |-> "locked", chan |-> chan]
    /\ UNCHANGED <<phase, chip, last_chan, deselect, irq, domain, mapped,
                   channels, bound, hwreg, last, lastWrite, h, rm_c, lk>>

\* muxc->select: a write that took the lock again would wait for its own
\* caller
MuxSelect ==
    /\ bus.pc = "locked"
    /\ RegWriteLocks => bus.owner = "none"
    /\ \E ret \in BusRets : \E landed \in Landings(ret) :
          /\ SelectChan(bus.chan, ret, landed)
          /\ bus' = [bus EXCEPT !.pc = IF ret < 0 THEN "failed" ELSE "selected"]
    /\ UNCHANGED <<phase, chip, deselect, irq, domain, mapped, channels,
                   bound, h, rm_c, lk>>

\* the transfer on the parent adapter, with the lock held
MuxTransfer ==
    /\ bus.pc = "selected"
    /\ bus' = [bus EXCEPT !.pc = "transferred"]
    /\ UNCHANGED <<phase, chip, last_chan, deselect, irq, domain, mapped,
                   channels, bound, hwreg, last, lastWrite, h, rm_c, lk>>

\* muxc->deselect, also after a failed select; then the parent is unlocked
MuxDeselect ==
    /\ bus.pc \in {"failed", "transferred"}
    /\ (RegWriteLocks /\ ~DeselectSkips(deselect, bus.chan))
           => bus.owner = "none"
    /\ \E ret \in BusRets : \E landed \in Landings(ret) :
          DeselectMux(bus.chan, ret, landed)
    /\ bus' = BusIdle
    /\ UNCHANGED <<phase, chip, deselect, irq, domain, mapped, channels,
                   bound, h, rm_c, lk>>

(***************************************************************************)
(* The driver bound to one device.                                         *)
(***************************************************************************)
Init ==
    /\ phase = "unbound"
    /\ chip = pca_9540
    /\ last_chan = 0
    /\ deselect = 0
    /\ irq = FALSE
    /\ domain = FALSE
    /\ mapped = {}
    /\ channels = <<>>
    /\ bound = FALSE
    /\ hwreg \in PriorRegs
    /\ last = NoCall
    /\ lastWrite = NoWrite
    /\ h = HandlerIdle
    /\ rm_c = 0
    /\ bus = BusIdle
    /\ lk = NoLock

Next ==
    \/ Probe
    \/ Select
    \/ Deselect
    \/ Resume
    \/ IrqRead
    \/ IrqLoop
    \/ IrqReturn
    \/ Remove
    \/ CleanupDispose
    \/ CleanupDomainRemove
    \/ CleanupDelAdapters
    \/ DevmRelease
    \/ IrqSetType
    \/ MuxLock
    \/ MuxSelect
    \/ MuxTransfer
    \/ MuxDeselect

Spec == Init /\ [][Next]_vars

\* the bound device in operation: bus traffic through the channels, resume
\* and the interrupt thread, no unbind
NextRun ==
    \/ Probe
    \/ Select
    \/ Deselect
    \/ Resume
    \/ IrqRead
    \/ IrqLoop
    \/ IrqReturn

SpecRun == Init /\ [][NextRun]_vars

\* bus traffic alone
NextBus ==
    \/ Probe
    \/ Select
    \/ Deselect
    \/ Resume

SpecBus == Init /\ [][NextBus]_vars

\* channel numbers a caller that does not keep to the adapters' chan_id
\* passes: those of the adapters, the first one past the chip's channels
\* and MaxChan
AnyChans == Range(channels) \cup {chips[chip].nchans, MaxChan}

SelectAny ==
    /\ phase = "attached"
    /\ \E chan \in AnyChans, ret \in BusRets : \E landed \in Landings(ret) :
          SelectChan(chan, ret, landed)
    /\ UNCHANGED <<phase, chip, deselect, irq, domain, mapped, channels,
                   bound, h, rm_c>>
    /\ UNCHANGED <<bus, lk>>

DeselectAny ==
    /\ phase = "attached"
    /\ \E chan \in AnyChans, ret \in BusRets : \E landed \in Landings(ret) :
          DeselectMux(chan, ret, landed)
    /\ UNCHANGED <<phase, chip, deselect, irq, domain, mapped, channels,
                   bound, h, rm_c>>
    /\ UNCHANGED <<bus, lk>>

\* bus traffic with channel numbers in and out of range
NextAny ==
    \/ Probe
    \/ SelectAny
    \/ DeselectAny

SpecAny == Init /\ [][NextAny]_vars

\* bind, interrupts and unbind, no bus traffic through the channels
NextIrq ==
    \/ Probe
    \/ IrqRead
    \/ IrqLoop
    \/ IrqReturn
    \/ Remove
    \/ CleanupDispose
    \/ CleanupDomainRemove
    \/ CleanupDelAdapters
    \/ DevmRelease
    \/ IrqSetType

SpecIrq == Init /\ [][NextIrq]_vars

\* transfers through the channels under the lock of the parent adapter, and
\* the interrupt thread
NextLock ==
    \/ Probe
    \/ MuxLock
    \/ MuxSelect
    \/ MuxTransfer
    \/ MuxDeselect
    \/ IrqRead
    \/ IrqLoop
    \/ IrqReturn

SpecLock == Init /\ [][NextLock]_vars

(***************************************************************************)
(* Properties.                                                             *)
(***************************************************************************)
\* the positions of the bits set in n
BitsOf(n) == {k \in 0 .. 15 : (n \div (2 ^ k)) % 2 = 1}

\* channel c is marked for idle disconnect in the mask
Marked(mask, c) == c \in BitsOf(mask)

InRange(c) == 0 <= c /\ c < chips[chip].nchans
IsMux == chips[chip].muxtype = pca954x_ismux
IsCall(op) == last.op = op

\* C1: for every chip type and every channel below nchans, the byte select
\* hands to the bus write has the bits of the channel number and of the
\* enable pattern on a mux, and the single bit of the channel on a switch.
C1_SelectByte ==
    (IsCall("select") /\ InRange(last.chan)) =>
        /\ last.nwrites = 1
        /\ lastWrite.byte = last.byte
        /\ IsMux => BitsOf(last.byte) =
                        BitsOf(last.chan) \cup BitsOf(chips[chip].enable)
        /\ ~IsMux => BitsOf(last.byte) = {last.chan}

\* select(5) on the 8-channel mux with enable 0x8 wrote 0xD
C1_Witness ==
    /\ chip = pca_9547
    /\ IsCall("select") /\ last.chan = 5
    /\ last.nwrites = 1 /\ last.byte = 13

\* C2: when the bus write of a select or deselect failed, last_chan is 0
\* and the call returned the failure of the write.
C2_FailedWriteResets ==
    ((IsCall("select") \/ IsCall("deselect")) /\ last.nwrites = 1
        /\ lastWrite.ret < 0) =>
        /\ last_chan = 0
        /\ last.ret = lastWrite.ret

\* a select failed while the chip still had another channel connected
C2_Witness ==
    /\ IsCall("select") /\ last.ret < 0 /\ last_chan = 0
    /\ hwreg # 0 /\ hwreg # last.byte

\* C3: once attached, last_chan is the byte of the most recent write attempt
\* when that attempt succeeded and 0 when it failed; a select whose write
\* succeeded returned 0 and left last_chan at the byte it wrote.
C3_MirrorsLastWrite ==
    (phase = "attached") =>
        /\ last_chan = (IF lastWrite.ret = 0 THEN lastWrite.byte ELSE 0)
        /\ (IsCall("select") /\ lastWrite.ret = 0) =>
               (last.ret = 0 /\ last_chan = last.byte)

\* a deselect that wrote nothing after a successful select
C3_Witness ==
    /\ phase = "attached"
    /\ IsCall("deselect") /\ last.nwrites = 0
    /\ lastWrite.ret = 0 /\ lastWrite.byte # 0 /\ last_chan = lastWrite.byte

\* C4: every select issued exactly one bus write attempt.
C4_SelectWritesOnce == IsCall("select") => last.nwrites = 1

\* a select of the value last_chan already held, written all the same
C4_Witness ==
    /\ IsCall("select") /\ last.cached /\ last.byte # 0
    /\ last.nwrites = 1 /\ last.ret = 0

\* C5: a deselect of a channel not marked in data->deselect returns 0,
\* writes nothing and leaves last_chan and the chip's register as they were.
C5_UnmarkedDeselectIsNoop ==
    [][(last'.op = "deselect" /\ last' # last
            /\ ~Marked(deselect', last'.chan)) =>
        /\ last'.ret = 0
        /\ last'.nwrites = 0
        /\ UNCHANGED <<last_chan, hwreg, lastWrite>>]_vars

\* the channel selected before stays connected after the deselect
C5_Witness ==
    /\ IsCall("deselect") /\ ~Marked(deselect, last.chan)
    /\ last.nwrites = 0 /\ last.ret = 0
    /\ last_chan # 0 /\ hwreg = last_chan

\* C6: a deselect of a channel marked in data->deselect issues one write of
\* 0, leaves last_chan at 0 whatever the write returns, and returns 0
\* exactly when the write succeeded.
C6_MarkedDeselectWritesZero ==
    (IsCall("deselect") /\ Marked(deselect, last.chan)) =>
        /\ last.nwrites = 1
        /\ last.byte = 0
        /\ lastWrite.byte = 0
        /\ last_chan = 0
        /\ (last.ret = 0 <=> lastWrite.ret = 0)

\* 4-channel switch, all channels idle-disconnect: deselect(2) wrote 0
C6_Witness ==
    /\ chip = pca_9545 /\ deselect = 15
    /\ IsCall("deselect") /\ last.chan = 2
    /\ last.nwrites = 1 /\ last.ret = 0 /\ hwreg = 0 /\ last_chan = 0

\* a marked deselect whose write failed
C6_WitnessFailed ==
    /\ IsCall("deselect") /\ Marked(deselect, last.chan)
    /\ last.ret < 0 /\ last_chan = 0

\* C7 as stated: a select or deselect with a channel number outside
\* 0 .. nchans-1 returns a failure, attempts no write and leaves last_chan
\* as it was.
C7_OutOfRangeRejected ==
    [][((last'.op = "select" \/ last'.op = "deselect") /\ last' # last
            /\ last'.chan >= chips[chip'].nchans) =>
        /\ last'.ret < 0
        /\ last'.nwrites = 0
        /\ UNCHANGED last_chan]_vars

\* C7 as amended: neither function checks the channel number.  With a
\* channel number past the chip's channels select still issues one write, of
\* the low 8 bits of chan | enable (mux) or of 1 << chan (switch), and sets
\* last_chan from the outcome; deselect finds no bit of data->deselect,
\* returns 0, writes nothing and leaves last_chan and the register alone.
C7_OutOfRangeUnchecked ==
    [][(last' # last /\ (last'.op = "select" \/ last'.op = "deselect")
            /\ last'.chan >= chips[chip'].nchans) =>
        /\ (last'.op = "select") =>
              /\ last'.nwrites = 1
              /\ lastWrite'.byte = last'.byte
              /\ last'.ret = lastWrite'.ret
              /\ BitsOf(last'.byte) =
                    (IF chips[chip'].muxtype = pca954x_ismux
                     THEN BitsOf(last'.chan) \cup BitsOf(chips[chip'].enable)
                     ELSE {last'.chan}) \cap (0 .. 7)
              /\ last_chan' = (IF last'.ret < 0 THEN 0 ELSE last'.byte)
        /\ (last'.op = "deselect") =>
              /\ last'.ret = 0
              /\ last'.nwrites = 0
              /\ UNCHANGED <<last_chan, hwreg, lastWrite>>]_vars

\* select(8) on an 8-channel switch wrote the byte 0 and returned 0
C7_Witness ==
    /\ chip = pca_9548
    /\ IsCall("select") /\ last.chan = 8
    /\ last.nwrites = 1 /\ last.byte = 0 /\ last.ret = 0

\* the channels the status byte s reports: bit 4 + i for channel i
StatusChans(s) ==
    {i \in 0 .. (chips[chip].nchans - 1) : (PCA954X_IRQ_OFFSET + i) \in BitsOf(s)}

\* the channels the handler called handle_nested_irq for
Dispatched == {h.disp[k].chan : k \in DOMAIN h.disp}

\* C8: when the handler has returned after a successful status read of s, it
\* dispatched to exactly the channels i < nchans with bit 4 + i set in s,
\* once each, and returned IRQ_HANDLED exactly when there was one.
C8_DispatchSet ==
    (h.pc = "done" /\ h.ret >= 0) =>
        /\ Dispatched = StatusChans(h.ret)
        /\ Len(h.disp) = Cardinality(StatusChans(h.ret))
        /\ \A k \in DOMAIN h.disp : h.disp[k].virq # 0
        /\ (h.result = "IRQ_HANDLED" <=> StatusChans(h.ret) # {})
        /\ h.result \in {"IRQ_HANDLED", "IRQ_NONE"}

\* status 0b11010000 on a 4-channel chip: channels 0, 2 and 3, handled
C8_Witness ==
    /\ chips[chip].nchans = 4
    /\ h.pc = "done" /\ h.ret = 208
    /\ Dispatched = {0, 2, 3} /\ h.result = "IRQ_HANDLED"

\* C9: a handler whose status read failed returns IRQ_NONE with no dispatch,
\* and no step of the handler changes last_chan or the chip's register.
C9_FailedReadNotHandled ==
    [][(h' # h) =>
        /\ (h'.pc = "done" /\ h'.ret < 0) =>
               (h'.result = "IRQ_NONE" /\ h'.disp = <<>>)
        /\ UNCHANGED <<last_chan, hwreg, lastWrite>>]_vars

\* the read failed while a channel was selected
C9_Witness ==
    /\ h.pc = "done" /\ h.ret < 0 /\ h.result = "IRQ_NONE" /\ h.disp = <<>>
    /\ last_chan # 0 /\ hwreg = last_chan

\* C10: a probe of a chip type with identity data whose identity read
\* succeeded with another manufacturer id or part id fails, having issued no
\* register write and having created no irq domain, mapping or adapter.
C10_IdentityMismatchFails ==
    (IsCall("probe") /\ HasIdentity(chips[last.id]) /\ last.idreads = 1
        /\ last.idret = 0
        /\ (\/ last.read.manufacturer_id # chips[last.id].manufacturer_id
            \/ last.read.part_id # chips[last.id].part_id)) =>
        /\ last.ret < 0
        /\ phase = "failed"
        /\ last.writes = 0
        /\ last.domains = 0 /\ last.maps = 0 /\ last.requests = 0
        /\ last.adapters = 0
        /\ channels = <<>> /\ mapped = {} /\ ~domain /\ ~bound
        /\ lastWrite = NoWrite

\* the part answered with the right manufacturer and another part id
C10_Witness ==
    /\ IsCall("probe") /\ last.id = pca_9846 /\ last.idreads = 1
    /\ last.idret = 0
    /\ last.read.manufacturer_id = I2C_DEVICE_ID_NXP_SEMICONDUCTORS
    /\ last.read.part_id # 267
    /\ last.ret = -ENODEV /\ phase = "failed"

\* C11: a probe of a chip type without identity data reads no identity; a
\* probe whose identity read returned -EOPNOTSUPP goes on to the register
\* write as one that read no identity does, and does not fail with that
\* result; a probe whose identity read returned another error returns that
\* error, having written nothing.
C11_IdentityReadOutcome ==
    IsCall("probe") =>
        /\ chips[last.id].manufacturer_id = I2C_DEVICE_ID_NONE
              => last.idreads = 0
        /\ (last.idreads = 1 /\ last.idret = -EOPNOTSUPP) =>
              /\ last.writes = 1
              /\ last.ret # -EOPNOTSUPP
              /\ last.wret = 0 =>
                    (last.ret = 0 <=> last.adapters = Len(channels)
                                        /\ phase = "attached")
        /\ (last.idreads = 1 /\ last.idret \notin {0, -EOPNOTSUPP}) =>
              /\ last.ret = last.idret
              /\ phase = "failed"
              /\ last.writes = 0
              /\ lastWrite = NoWrite

\* the identity read was not supported and the probe succeeded
C11_Witness ==
    /\ IsCall("probe") /\ last.idreads = 1 /\ last.idret = -EOPNOTSUPP
    /\ last.ret = 0 /\ phase = "attached" /\ channels # <<>>

\* C12: after a probe that returned an error, whatever it had built before,
\* the device has no adapter, no mapped interrupt line, no irq domain and no
\* interrupt handler.
C12_FailedProbeLeavesNothing ==
    (IsCall("probe") /\ last.ret # 0) =>
        /\ phase = "failed"
        /\ channels = <<>>
        /\ mapped = {}
        /\ ~domain
        /\ ~bound

\* adding an adapter failed after lines were mapped and adapters were added
C12_Witness ==
    /\ IsCall("probe") /\ last.ret = AddErr
    /\ last.maps >= 2 /\ last.adapters >= 1
    /\ channels = <<>> /\ mapped = {}

\* C13: a probe writes the register at most once, the byte 0; whatever it
\* built, it built after that write succeeded; when the write failed the
\* probe returned -ENODEV with nothing built; after a probe that succeeded
\* the register of the chip and last_chan are 0.
C13_ProbingWrite ==
    IsCall("probe") =>
        /\ last.writes <= 1
        /\ last.writes = 1 => lastWrite = WriteRec(0, last.wret)
        /\ (last.domains + last.maps + last.adapters + last.requests > 0) =>
              (last.writes = 1 /\ last.wret = 0)
        /\ (last.writes = 1 /\ last.wret < 0) =>
              /\ last.ret = -ENODEV
              /\ phase = "failed"
              /\ last.domains = 0 /\ last.maps = 0 /\ last.adapters = 0
              /\ last.requests = 0
              /\ channels = <<>> /\ mapped = {} /\ ~domain /\ ~bound
        /\ last.ret = 0 =>
              /\ last.writes = 1
              /\ hwreg = 0
              /\ last_chan = 0

\* the write failed and did not reach the chip
C13_Witness ==
    /\ IsCall("probe") /\ last.writes = 1 /\ last.wret < 0
    /\ last.ret = -ENODEV /\ hwreg # 0

\* C14: a resume writes the register once, the byte 0, and returns the
\* result of that write; last_chan is 0 after it whatever the result; the
\* adapters, the deselect mask, the irq domain, its mappings and the handler
\* are as before.
C14_ResumeResets ==
    [][last'.op = "resume" =>
          /\ last'.nwrites = 1
          /\ last'.byte = 0
          /\ lastWrite' = WriteRec(0, last'.ret)
          /\ last'.ret = 0 => hwreg' = 0
          /\ last_chan' = 0
          /\ UNCHANGED <<channels, deselect, irq, domain, mapped, bound,
                         phase>>]_vars

\* the write of a resume failed while a channel was selected
C14_Witness ==
    /\ IsCall("resume") /\ last.ret < 0
    /\ last_chan = 0 /\ hwreg # 0
    /\ deselect # 0 /\ mapped # {} /\ channels # <<>>

\* C15: setting the trigger type of a line returns 0 exactly when the sense
\* bits of the type are those of level low, and -EINVAL otherwise; it
\* writes nothing to the chip and changes nothing of the device.
C15_SetTypeLevelLowOnly ==
    [][(last'.op = "set_type" /\ last' # last) =>
          /\ last'.ret = 0 <=> last'.type % 16 = 8
          /\ last'.ret # 0 => last'.ret = -EINVAL
          /\ UNCHANGED <<phase, chip, last_chan, deselect, irq, domain,
                         mapped, channels, bound, hwreg, lastWrite, h>>]_vars

\* level low together with a flag above the sense bits was accepted
C15_Witness ==
    /\ IsCall("set_type") /\ last.type = 24 /\ last.ret = 0

\* C16: unbinding releases the interrupt handler before the mappings and
\* the irq domain, so that the handler is never bound to the interrupt
\* line of the chip while the irq domain is removed.
C16_HandlerUnboundBeforeDomain ==
    ~(bound /\ irq /\ ~domain)

\* C17: the interrupt thread, run at any point of an unbind, looks up no
\* hwirq whose mapping is disposed of and no irq domain that is removed;
\* and the domain is removed only when no hwirq is mapped any more.
C17_NoStaleDispatch ==
    /\ ~h.stale
    /\ (irq /\ ~domain) => mapped = {}

\* C18: with transfers through the channels made under the lock of the
\* parent adapter and the interrupt thread running beside them, the lock
\* has one holder for the whole of a transfer; select and deselect, called
\* with the lock held, can always go on; and every status read of the
\* handler happened while no transfer stood between its lock and its
\* unlock, so never between a select and its deselect.
C18_BusLockExcludes ==
    /\ h.at = "idle"
    /\ bus.pc # "idle" => bus.owner = "mux"
    /\ bus.pc = "locked" => ENABLED MuxSelect
    /\ bus.pc \in {"failed", "transferred"} => ENABLED MuxDeselect

\* the thread read the status byte, then a transfer selected its channel
\* while the thread was still dispatching
C18_Witness ==
    /\ bus.pc = "selected" /\ bus.owner = "mux"
    /\ h.pc = "loop" /\ h.at = "idle" /\ h.disp # <<>>
    /\ last_chan # 0

\* C19: the irq domain and the mappings of its hwirqs are changed only with
\* data->lock held, and the lock is not held across the status read or a
\* nested dispatch of the handler.
C19_DomainChangesUnderLock ==
    /\ "unlocked" \notin lk.muts
    /\ ~lk.blk

\* the deselect_on_exit flag the platform data gives channel c, if any
PdFlag(conf, c) ==
    /\ conf.pdata.present
    /\ c + 1 \in DOMAIN conf.pdata.modes
    /\ conf.pdata.modes[c + 1]

\* C20: a probe that succeeded leaves channel c marked in the deselect mask
\* exactly when it added the adapter of c and either the platform data
\* flags c or the device has the idle-disconnect property; no select,
\* deselect, resume or step of the interrupt thread changes the mask.
C20_DeselectMask ==
    [][/\ (phase = "unbound" /\ phase' = "attached") =>
             \A c \in 0 .. (PCA954X_MAX_NCHANS - 1) :
                 Marked(deselect', c) <=>
                     /\ c \in Range(channels')
                     /\ PdFlag(last'.conf, c) \/ last'.conf.idle_dt
       /\ phase = "attached" => deselect' = deselect]_vars

\* the platform data flags the first of two channels only
C20_Witness ==
    /\ phase = "attached" /\ IsCall("probe")
    /\ last.conf.pdata.present /\ last.conf.pdata.modes = <<TRUE, FALSE>>
    /\ ~last.conf.idle_dt
    /\ deselect = 1 /\ Len(channels) = 2

\* the smaller of two numbers
Min(a, b) == IF a < b THEN a ELSE b

\* C21: after a probe that succeeded the adapters are those of the channels
\* 0 .. count-1 in that order, where count is nchans without platform data
\* and the smaller of nchans and num_modes with it; there are never more
\* than PCA954X_MAX_NCHANS adapters.
C21_AdapterCount ==
    /\ Len(channels) <= PCA954X_MAX_NCHANS
    /\ \A k \in DOMAIN channels : channels[k] = k - 1
    /\ (IsCall("probe") /\ last.ret = 0) =>
          Len(channels) =
              IF last.conf.pdata.present
              THEN Min(chips[last.id].nchans, Len(last.conf.pdata.modes))
              ELSE chips[last.id].nchans

\* the platform data has more modes than the chip has channels
C21_Witness ==
    /\ IsCall("probe") /\ last.ret = 0 /\ last.conf.pdata.present
    /\ Len(last.conf.pdata.modes) > chips[last.id].nchans
    /\ channels = <<0, 1>>

\* C22: after a probe that succeeded the irq domain exists exactly when the
\* chip type has interrupts and the client has an interrupt line; when it
\* exists every hwirq 0 .. nchans-1 is mapped and the handler is requested;
\* when it does not, the irq setup did nothing and no handler is requested.
C22_IrqDomainPresence ==
    (IsCall("probe") /\ last.ret = 0) =>
        /\ irq <=> (chips[last.id].has_irq = 1 /\ last.conf.line)
        /\ irq =>
              /\ domain
              /\ mapped = 0 .. (chips[last.id].nchans - 1)
              /\ bound
              /\ last.domains = 1
              /\ last.maps = chips[last.id].nchans
              /\ last.requests = 1
        /\ ~irq =>
              /\ ~domain
              /\ mapped = {}
              /\ ~bound
              /\ last.domains = 0 /\ last.maps = 0 /\ last.requests = 0
              /\ lk = NoLock

\* the platform data cut the adapters down to two, all four lines are mapped
C22_Witness ==
    /\ IsCall("probe") /\ last.ret = 0 /\ irq /\ bound
    /\ Len(channels) = 2 /\ mapped = 0 .. 3

\* C23: on a switch, after a select of a channel below nchans that
\* succeeded, the register of the chip holds the bit of that channel and no
\* other; and the register of a bound switch never holds more than one bit.
C23_SwitchOneBit ==
    (phase = "attached" /\ ~IsMux) =>
        /\ Cardinality(BitsOf(hwreg)) <= 1
        /\ (IsCall("select") /\ last.ret = 0 /\ InRange(last.chan)) =>
              BitsOf(hwreg) = {last.chan}

\* channel 1 of a switch selected after another register value was cached
C23_Witness ==
    /\ phase = "attached" /\ ~IsMux
    /\ IsCall("select") /\ last.ret = 0 /\ last.chan = 1 /\ ~last.cached
    /\ hwreg = 2 /\ last_chan = 2

\* the bytes select writes for the channels of a chip type
Encodings(id) ==
    {SelectRegval(chips[id], c) : c \in 0 .. (chips[id].nchans - 1)}

\* C24: for every chip type a probe was given the bytes select writes for the channels below
\* nchans differ from each other, lie in 1 .. 255 and so are never the 0 of
\* the disconnected state; after a select that succeeded last_chan is the
\* byte of the selected channel and of no other, and not 0; last_chan of a
\* bound device is 0 or the byte of one channel.
C24_EncodingInjective ==
    /\ phase # "unbound" =>
          /\ Encodings(chip) \subseteq 1 .. 255
          /\ Cardinality(Encodings(chip)) = chips[chip].nchans
    /\ (phase = "attached" /\ IsCall("select") /\ last.ret = 0
            /\ InRange(last.chan)) =>
          /\ last_chan # 0
          /\ {c \in 0 .. (chips[chip].nchans - 1) :
                 SelectRegval(chips[chip], c) = last_chan} = {last.chan}
    /\ phase = "attached" => last_chan \in {0} \cup Encodings(chip)

\* channel 0 of a mux is selected: the cached byte is the enable bit
C24_Witness ==
    /\ phase = "attached" /\ IsMux
    /\ IsCall("select") /\ last.ret = 0 /\ last.chan = 0
    /\ last_chan = chips[chip].enable /\ last_chan # 0

====
